---- MODULE Spec2Model ----
(***************************************************************************)
(* A model of rpg (Rust Password Generator): the token parser, the         *)
(* character-set builder, the validator of the arguments and the two       *)
(* generation modes driven by generate_passwords.                          *)
(*                                                                         *)
(* Characters are modelled by their code points (naturals), bytes by       *)
(* 0..255, a Vec by a sequence, Option<T> by <<>> (None) or <<v>>          *)
(* (Some(v)), Result by a record [ok, val, err].  A String is the sequence *)
(* of its chars; its len() is the number of bytes of its UTF-8 encoding.   *)
(***************************************************************************)
EXTENDS Naturals, Sequences, FiniteSets

VARIABLES
    pc,            \* position of the caller: "parse", "validate", "build", "generate", ...
    args,          \* PasswordArgs handed to build_char_set
    build_result,  \* Result<Vec<u8>, PasswordError> of build_char_set
    params,        \* GenerationParams handed to generate_passwords
    rng,           \* the random source (&mut R), advanced in place
    passwords,     \* the Vec<String> generate_passwords is filling
    calls,         \* history: each call of a generation mode, its rng state and result
    exclude_strings,  \* the Vec<String> parse_exclude_chars iterates over
    consumed,         \* how many of its tokens the `for` loop has taken
    parsed_chars,     \* the Vec<char> parse_exclude_chars is filling (its exclude_chars)
    parse_result,     \* Result<Vec<char>, String> of parse_exclude_chars
    branch,           \* the branch that handled the last token taken
    validate_result,  \* Result<(), PasswordError> of validate_args
    cli,              \* the command line as clap parsed it (main.rs Args)
    locals,           \* main's results of its three parsing stages
    printed           \* the passwords main has written to the output

parser_vars == <<exclude_strings, consumed, parsed_chars, parse_result, branch>>

cli_vars == <<cli, locals, printed>>

vars == <<pc, args, build_result, params, rng, passwords, calls,
          exclude_strings, consumed, parsed_chars, parse_result, branch,
          validate_result, cli, locals, printed>>

(***************************************************************************)
(* Bounds of the model.                                                    *)
(***************************************************************************)
MaxLen == 2        \* params.length ranges over 0..MaxLen
MaxMin == 1        \* a configured minimum ranges over 0..MaxMin
MaxCount == 2      \* params.count ranges over 0..MaxCount
MaxPat == 2        \* a pattern has at most MaxPat positions
RngPeriod == 2     \* the random source repeats after RngPeriod raw values
RngRange == 3      \* a raw value of the random source ranges over 0..RngRange-1
MaxInclude == 2    \* an inclusion list given to build_char_set alone has <= MaxInclude characters
MaxExclude == 2    \* an exclusion list given to build_char_set alone has <= MaxExclude characters
MaxTokLen == 3     \* a token built from TokenChars has at most MaxTokLen characters
MaxTokens == 2     \* parse_exclude_chars is given at most MaxTokens tokens

(***************************************************************************)
(* Program constants (lib.rs 100-114).                                     *)
(***************************************************************************)
ASCII_LOWERCASE_START == 97
ASCII_LOWERCASE_END == 122
ASCII_UPPERCASE_START == 65
ASCII_UPPERCASE_END == 90
ASCII_NUMERAL_START == 48
ASCII_NUMERAL_END == 57
ASCII_SYMBOL_RANGE_1_START == 33
ASCII_SYMBOL_RANGE_1_END == 47
ASCII_SYMBOL_RANGE_2_START == 58
ASCII_SYMBOL_RANGE_2_END == 64
ASCII_SYMBOL_RANGE_3_START == 91
ASCII_SYMBOL_RANGE_3_END == 96
ASCII_SYMBOL_RANGE_4_START == 123
ASCII_SYMBOL_RANGE_4_END == 126

(***************************************************************************)
(* Option, Result and the two casts.                                       *)
(***************************************************************************)
None == <<>>
Some(v) == <<v>>
IsSome(o) == o # <<>>
Unwrap(o) == o[1]

Ok(v) == [ok |-> TRUE, val |-> v, err |-> "none"]
Err(e) == [ok |-> FALSE, val |-> <<>>, err |-> e]

\* `c as u8` on a char: the code point truncated to its low 8 bits.
CharAsU8(c) == c % 256

\* `b as char` on a u8: the char whose code point is the byte (U+0000..U+00FF).
U8AsChar(b) == b

\* a..=b as a sequence
RangeInclusive(lo, hi) == [i \in 1..(hi + 1 - lo) |-> lo + (i - 1)]

\* slice.contains(&x) / Vec::contains
Contains(s, x) == \E i \in DOMAIN s : s[i] = x

InRange(lo, hi, b) == lo <= b /\ b <= hi

(***************************************************************************)
(* build_char_set (lib.rs 200-251).                                        *)
(***************************************************************************)
\* mutant: an inclusion list that is present but empty is not used
UsesIncludeListNonEmpty(a) ==
    IsSome(a.include_chars) /\ Unwrap(a.include_chars) # <<>>

\* `if let Some(ref include_chars) = args.include_chars`
UsesIncludeList(a) == IsSome(a.include_chars)

\* mutant: the numerals are added under the capitals' flag
UnfilteredCharsNumeralsByCapitals(a) ==
    IF UsesIncludeList(a)
    THEN LET inc == Unwrap(a.include_chars)
         IN  [i \in DOMAIN inc |-> CharAsU8(inc[i])]
    ELSE RangeInclusive(ASCII_LOWERCASE_START, ASCII_LOWERCASE_END)
         \o (IF ~a.capitals_off
             THEN RangeInclusive(ASCII_UPPERCASE_START, ASCII_UPPERCASE_END)
             ELSE <<>>)
         \o (IF ~a.capitals_off
             THEN RangeInclusive(ASCII_NUMERAL_START, ASCII_NUMERAL_END)
             ELSE <<>>)
         \o (IF ~a.symbols_off
             THEN RangeInclusive(ASCII_SYMBOL_RANGE_1_START, ASCII_SYMBOL_RANGE_1_END)
                  \o RangeInclusive(ASCII_SYMBOL_RANGE_2_START, ASCII_SYMBOL_RANGE_2_END)
                  \o RangeInclusive(ASCII_SYMBOL_RANGE_3_START, ASCII_SYMBOL_RANGE_3_END)
                  \o RangeInclusive(ASCII_SYMBOL_RANGE_4_START, ASCII_SYMBOL_RANGE_4_END)
             ELSE <<>>)

\* the alphabet before the exclusion filter
UnfilteredChars(a) ==
    IF UsesIncludeList(a)
    THEN LET inc == Unwrap(a.include_chars)
         IN  [i \in DOMAIN inc |-> CharAsU8(inc[i])]
    ELSE RangeInclusive(ASCII_LOWERCASE_START, ASCII_LOWERCASE_END)
         \o (IF ~a.capitals_off
             THEN RangeInclusive(ASCII_UPPERCASE_START, ASCII_UPPERCASE_END)
             ELSE <<>>)
         \o (IF ~a.numerals_off
             THEN RangeInclusive(ASCII_NUMERAL_START, ASCII_NUMERAL_END)
             ELSE <<>>)
         \o (IF ~a.symbols_off
             THEN RangeInclusive(ASCII_SYMBOL_RANGE_1_START, ASCII_SYMBOL_RANGE_1_END)
                  \o RangeInclusive(ASCII_SYMBOL_RANGE_2_START, ASCII_SYMBOL_RANGE_2_END)
                  \o RangeInclusive(ASCII_SYMBOL_RANGE_3_START, ASCII_SYMBOL_RANGE_3_END)
                  \o RangeInclusive(ASCII_SYMBOL_RANGE_4_START, ASCII_SYMBOL_RANGE_4_END)
             ELSE <<>>)

\* mutant: the filter compares byte values, so an excluded character above
\* U+00FF removes the byte of its low 8 bits
RetainByByteValue(chars, exclude_chars) ==
    LET excluded_bytes == {CharAsU8(exclude_chars[i]) : i \in DOMAIN exclude_chars}
        Keep(b) == b \notin excluded_bytes
    IN  SelectSeq(chars, Keep)

\* mutant: the exclusion filter keeps everything
RetainEverything(chars, exclude_chars) == chars

\* chars.retain(|&b| !exclude_set.contains(&(b as char)))
RetainNotExcluded(chars, exclude_chars) ==
    LET exclude_set == {exclude_chars[i] : i \in DOMAIN exclude_chars}
        Keep(b) == U8AsChar(b) \notin exclude_set
    IN  SelectSeq(chars, Keep)

\* mutant: the emptiness of the alphabet is not checked
build_char_set_NoEmptyCheck(a) ==
    Ok(RetainNotExcluded(UnfilteredChars(a), a.exclude_chars))

build_char_set(a) ==
    LET chars == RetainNotExcluded(UnfilteredChars(a), a.exclude_chars)
    IN  IF chars = <<>> THEN Err("EmptyCharacterSet") ELSE Ok(chars)

(***************************************************************************)
(* The random source.  An Rng is a deterministic stream of raw values: the *)
(* state is the stream and the position in it.  random_range(0..n) reads   *)
(* one raw value and reduces it into the range.                            *)
(***************************************************************************)
random_range(r, n) ==
    [val |-> r.stream[r.pos] % n,
     rng |-> [r EXCEPT !.pos = (r.pos % Len(r.stream)) + 1]]

\* slice[rng.random_range(0..slice.len())]; random_range panics on an empty range
PickByte(slice, r) ==
    IF Len(slice) = 0
    THEN [panic |-> TRUE, byte |-> 0, rng |-> r]
    ELSE LET d == random_range(r, Len(slice))
         IN  [panic |-> FALSE, byte |-> slice[d.val + 1], rng |-> d.rng]

(***************************************************************************)
(* The category subsets of an alphabet (lib.rs 337-354, 407-421).          *)
(***************************************************************************)
IsLowercaseByte(b) == InRange(ASCII_LOWERCASE_START, ASCII_LOWERCASE_END, b)
IsUppercaseByte(b) == InRange(ASCII_UPPERCASE_START, ASCII_UPPERCASE_END, b)
IsNumeralByte(b) == InRange(ASCII_NUMERAL_START, ASCII_NUMERAL_END, b)
IsSymbolByte(b) == ~IsLowercaseByte(b) /\ ~IsUppercaseByte(b) /\ ~IsNumeralByte(b)

\* (START..=END).filter(|&b| char_set.contains(&b)).collect()
RangeSubset(lo, hi, char_set) ==
    LET InSet(b) == Contains(char_set, b)
    IN  SelectSeq(RangeInclusive(lo, hi), InSet)

lowercase_subset(char_set) ==
    RangeSubset(ASCII_LOWERCASE_START, ASCII_LOWERCASE_END, char_set)
uppercase_subset(char_set) ==
    RangeSubset(ASCII_UPPERCASE_START, ASCII_UPPERCASE_END, char_set)
numeric_subset(char_set) ==
    RangeSubset(ASCII_NUMERAL_START, ASCII_NUMERAL_END, char_set)
\* char_set.iter().filter(not lowercase, not uppercase, not numeral)
symbols_subset(char_set) == SelectSeq(char_set, IsSymbolByte)

PatternChars == {"Lowercase", "Uppercase", "Numeric", "Symbol"}

CategorySubset(char_set, pat_char) ==
    CASE pat_char = "Lowercase" -> lowercase_subset(char_set)
      [] pat_char = "Uppercase" -> uppercase_subset(char_set)
      [] pat_char = "Numeric" -> numeric_subset(char_set)
      [] pat_char = "Symbol" -> symbols_subset(char_set)

(***************************************************************************)
(* generate_password_from_pattern (lib.rs 330-391).                        *)
(***************************************************************************)
\* mutant: a position always draws from the whole alphabet
PatternSourceWholeAlphabet(char_set, pat_char) == char_set

\* mutant: no fallback, a position draws from its category subset only
PatternSourceNoFallback(char_set, pat_char) == CategorySubset(char_set, pat_char)

\* the slice a position draws from: its category subset, or the whole
\* alphabet when that subset is empty (each arm of the match, 358-385)
PatternSource(char_set, pat_char) ==
    LET subset == CategorySubset(char_set, pat_char)
    IN  IF subset = <<>> THEN char_set ELSE subset

\* `for &pat_char in pattern { ...; pass.push(char_byte as char) }`
RECURSIVE PatternLoop(_, _, _, _, _)
PatternLoop(char_set, pattern, i, pass, r) ==
    IF i > Len(pattern)
    THEN [panic |-> FALSE, pass |-> pass, rng |-> r]
    ELSE LET p == PickByte(PatternSource(char_set, pattern[i]), r)
         IN  IF p.panic
             THEN [panic |-> TRUE, pass |-> pass, rng |-> r]
             ELSE PatternLoop(char_set, pattern, i + 1,
                              Append(pass, U8AsChar(p.byte)), p.rng)

generate_password_from_pattern(char_set, pattern, r) ==
    PatternLoop(char_set, pattern, 1, <<>>, r)

(***************************************************************************)
(* generate_password_with_minimums (lib.rs 394-464).                       *)
(***************************************************************************)
\* mutant: the loop runs one time too few (`for _ in 1..min`)
RECURSIVE RequiredLoopShort(_, _, _, _)
RequiredLoopShort(subset, remaining, pass_vec, r) ==
    IF remaining <= 1
    THEN [pass |-> pass_vec, rng |-> r]
    ELSE IF subset # <<>>
         THEN LET p == PickByte(subset, r)
              IN  RequiredLoopShort(subset, remaining - 1,
                                    Append(pass_vec, U8AsChar(p.byte)), p.rng)
         ELSE RequiredLoopShort(subset, remaining - 1, pass_vec, r)

\* mutant: an iteration draws even when the subset is empty
RECURSIVE RequiredLoopDrawsWhenEmpty(_, _, _, _)
RequiredLoopDrawsWhenEmpty(subset, remaining, pass_vec, r) ==
    IF remaining = 0
    THEN [pass |-> pass_vec, rng |-> r]
    ELSE IF subset # <<>>
         THEN LET p == PickByte(subset, r)
              IN  RequiredLoopDrawsWhenEmpty(subset, remaining - 1,
                                             Append(pass_vec, U8AsChar(p.byte)), p.rng)
         ELSE RequiredLoopDrawsWhenEmpty(subset, remaining - 1, pass_vec,
                                         random_range(r, 1).rng)

\* `for _ in 0..min { if !set.is_empty() { push(set[random idx] as char) } }`
RECURSIVE RequiredLoop(_, _, _, _)
RequiredLoop(subset, remaining, pass_vec, r) ==
    IF remaining = 0
    THEN [pass |-> pass_vec, rng |-> r]
    ELSE IF subset # <<>>
         THEN LET p == PickByte(subset, r)
              IN  RequiredLoop(subset, remaining - 1,
                               Append(pass_vec, U8AsChar(p.byte)), p.rng)
         ELSE RequiredLoop(subset, remaining - 1, pass_vec, r)

\* `if let Some(min) = min_x { for _ in 0..min {...} }`
AddRequired(subset, min, pass_vec, r) ==
    IF IsSome(min)
    THEN RequiredLoop(subset, Unwrap(min), pass_vec, r)
    ELSE [pass |-> pass_vec, rng |-> r]

\* mutant: the fill loop runs while len <= length
RECURSIVE FillLoopInclusive(_, _, _, _)
FillLoopInclusive(char_set, length, pass_vec, r) ==
    IF Len(pass_vec) <= length
    THEN LET p == PickByte(char_set, r)
         IN  IF p.panic
             THEN [panic |-> TRUE, pass |-> pass_vec, rng |-> r]
             ELSE FillLoopInclusive(char_set, length,
                                    Append(pass_vec, U8AsChar(p.byte)), p.rng)
    ELSE [panic |-> FALSE, pass |-> pass_vec, rng |-> r]

\* `while pass_vec.len() < length { push(char_set[random idx] as char) }`
RECURSIVE FillLoop(_, _, _, _)
FillLoop(char_set, length, pass_vec, r) ==
    IF Len(pass_vec) < length
    THEN LET p == PickByte(char_set, r)
         IN  IF p.panic
             THEN [panic |-> TRUE, pass |-> pass_vec, rng |-> r]
             ELSE FillLoop(char_set, length,
                           Append(pass_vec, U8AsChar(p.byte)), p.rng)
    ELSE [panic |-> FALSE, pass |-> pass_vec, rng |-> r]

Swap(s, i, j) == [s EXCEPT ![i] = s[j], ![j] = s[i]]

\* pass_vec.shuffle(rng): Fisher-Yates, position i exchanged with a random
\* position of 0..=i (positions here are 1-based)
RECURSIVE ShuffleLoop(_, _, _)
ShuffleLoop(pass_vec, i, r) ==
    IF i > Len(pass_vec)
    THEN [pass |-> pass_vec, rng |-> r]
    ELSE LET d == random_range(r, i)
         IN  ShuffleLoop(Swap(pass_vec, i, d.val + 1), i + 1, d.rng)

shuffle(pass_vec, r) == ShuffleLoop(pass_vec, 2, r)

generate_password_with_minimums(char_set, length, min_capitals, min_numerals, min_symbols, r) ==
    LET with_capitals == AddRequired(uppercase_subset(char_set), min_capitals,
                                     <<>>, r)
        with_numerals == AddRequired(numeric_subset(char_set), min_numerals,
                                     with_capitals.pass, with_capitals.rng)
        with_symbols == AddRequired(symbols_subset(char_set), min_symbols,
                                    with_numerals.pass, with_numerals.rng)
        filled == FillLoop(char_set, length, with_symbols.pass, with_symbols.rng)
        shuffled == shuffle(filled.pass, filled.rng)
    IN  IF filled.panic
        THEN [panic |-> TRUE, pass |-> filled.pass, rng |-> filled.rng]
        ELSE [panic |-> FALSE, pass |-> shuffled.pass, rng |-> shuffled.rng]

(***************************************************************************)
(* generate_passwords (lib.rs 467-491): one loop iteration per step.       *)
(***************************************************************************)
char_set == build_result.val

\* mutant: the loop runs once more (`for _ in 0..=params.count`)
LoopContinuesInclusive(pushed, count) == pushed <= count

\* `for _ in 0..params.count`: the loop runs while fewer than count are pushed
LoopContinues(pushed, count) == pushed < count

\* mutant: a configured minimum of capitals sends the call to the other mode
PatternModeUnlessMinimums(p) == IsSome(p.pattern) /\ ~IsSome(p.min_capitals)

\* `if let Some(ref pat) = params.pattern`
PatternMode(p) == IsSome(p.pattern)

GenerateFromPattern ==
    /\ pc = "generate"
    /\ LoopContinues(Len(passwords), params.count)
    /\ PatternMode(params)
    /\ LET g == generate_password_from_pattern(char_set, Unwrap(params.pattern), rng)
       IN  /\ pc' = IF g.panic THEN "panic" ELSE "generate"
           /\ passwords' = IF g.panic THEN passwords ELSE Append(passwords, g.pass)
           /\ rng' = g.rng
           /\ calls' = Append(calls, [mode |-> "pattern", rng |-> rng, pass |-> g.pass])
    /\ UNCHANGED <<args, build_result, params, parser_vars, validate_result, cli_vars>>

\* mutant: the random source is not advanced by the call
GenerateWithMinimumsReseeded ==
    /\ pc = "generate"
    /\ LoopContinues(Len(passwords), params.count)
    /\ ~PatternMode(params)
    /\ LET g == generate_password_with_minimums(char_set, params.length,
                     params.min_capitals, params.min_numerals,
                     params.min_symbols, rng)
       IN  /\ pc' = IF g.panic THEN "panic" ELSE "generate"
           /\ passwords' = IF g.panic THEN passwords ELSE Append(passwords, g.pass)
           /\ rng' = rng
           /\ calls' = Append(calls, [mode |-> "minimums", rng |-> rng, pass |-> g.pass])
    /\ UNCHANGED <<args, build_result, params, parser_vars, validate_result, cli_vars>>

GenerateWithMinimums ==
    /\ pc = "generate"
    /\ LoopContinues(Len(passwords), params.count)
    /\ ~PatternMode(params)
    /\ LET g == generate_password_with_minimums(char_set, params.length,
                     params.min_capitals, params.min_numerals,
                     params.min_symbols, rng)
       IN  /\ pc' = IF g.panic THEN "panic" ELSE "generate"
           /\ passwords' = IF g.panic THEN passwords ELSE Append(passwords, g.pass)
           /\ rng' = g.rng
           /\ calls' = Append(calls, [mode |-> "minimums", rng |-> rng, pass |-> g.pass])
    /\ UNCHANGED <<args, build_result, params, parser_vars, validate_result, cli_vars>>

\* the loop is over: `passwords` is returned
Return ==
    /\ pc = "generate"
    /\ ~LoopContinues(Len(passwords), params.count)
    /\ pc' = "done"
    /\ UNCHANGED <<args, build_result, params, rng, passwords, calls>>
    /\ UNCHANGED <<parser_vars, validate_result, cli_vars>>

(***************************************************************************)
(* The caller (lib.rs 19-43, main.rs 189-216): build the alphabet once,    *)
(* stop on an error, otherwise generate the batch.                         *)
(***************************************************************************)
BuildCharSet ==
    /\ pc = "build"
    /\ build_result' = build_char_set(args)
    /\ pc' = IF build_result'.ok THEN "generate" ELSE "error"
    /\ UNCHANGED <<args, params, rng, passwords, calls>>
    /\ UNCHANGED <<parser_vars, validate_result, cli_vars>>

(***************************************************************************)
(* The inputs the model explores.                                          *)
(***************************************************************************)
Minimums == {None} \cup {Some(n) : n \in 0..MaxMin}

PatternsUpTo(n) == UNION {[1..k -> PatternChars] : k \in 0..n}

Patterns == {None} \cup {Some(p) : p \in PatternsUpTo(MaxPat)}

AllMinimums(p, m) ==
    p.min_capitals = m /\ p.min_numerals = m /\ p.min_symbols = m

\* GenerationParams.  Without a pattern: every length and combination of
\* minimums for a single password, every batch size without minimums.  With
\* a pattern: every pattern and batch size, the fields pattern mode does not
\* read at their two extremes.
GenParams ==
    {p \in [length : 0..MaxLen, count : 0..MaxCount,
            min_capitals : Minimums, min_numerals : Minimums,
            min_symbols : Minimums, pattern : Patterns] :
        /\ p.count # 1 => AllMinimums(p, None)
        /\ p.pattern # None =>
               \/ AllMinimums(p, None) /\ p.length = 0
               \/ AllMinimums(p, Some(MaxMin)) /\ p.length = MaxLen}

\* the random sources: every stream of RngPeriod raw values
Rngs == {[stream |-> s, pos |-> 1] : s \in [1..RngPeriod -> 0..(RngRange - 1)]}

\* (include_chars, exclude_chars, capitals_off, numerals_off, symbols_off)
\* 97 a, 98 b, 65 A, 66 B, 48 0, 49 1, 33 !, 64 @, 233 e-acute, 353 s-caron
AlphabetChoices ==
    { <<None, <<>>, FALSE, FALSE, FALSE>>,
      <<None, <<>>, TRUE, TRUE, TRUE>>,
      <<None, RangeInclusive(97, 122), FALSE, TRUE, TRUE>>,
      <<None, RangeInclusive(97, 122), TRUE, TRUE, TRUE>>,
      <<Some(<<97>>), <<>>, FALSE, FALSE, FALSE>>,
      <<Some(<<65, 66>>), <<>>, FALSE, FALSE, FALSE>>,
      <<Some(<<65, 48>>), <<>>, FALSE, FALSE, FALSE>>,
      <<Some(<<48, 33>>), <<>>, FALSE, FALSE, FALSE>>,
      <<Some(<<97, 33>>), <<>>, FALSE, FALSE, FALSE>>,
      <<Some(<<97, 65, 48, 33>>), <<>>, FALSE, FALSE, FALSE>>,
      <<Some(<<97, 98, 65, 66, 48, 49, 33, 64>>), <<>>, TRUE, FALSE, FALSE>>,
      <<Some(<<97, 233>>), <<>>, FALSE, FALSE, FALSE>>,
      <<Some(<<97, 98, 65>>), <<97>>, FALSE, FALSE, FALSE>>,
      <<Some(<<97, 97, 48>>), <<>>, FALSE, FALSE, FALSE>>,
      <<Some(<<353>>), <<>>, FALSE, FALSE, FALSE>>,
      <<Some(<<97>>), <<97>>, FALSE, FALSE, FALSE>>,
      <<Some(<<>>), <<>>, FALSE, FALSE, FALSE>> }

\* PasswordArgs as main.rs 169-181 fills it from the same request
MakeArgs(c, p) ==
    [capitals_off |-> c[3], numerals_off |-> c[4], symbols_off |-> c[5],
     exclude_chars |-> c[2], include_chars |-> c[1],
     min_capitals |-> p.min_capitals, min_numerals |-> p.min_numerals,
     min_symbols |-> p.min_symbols, pattern |-> p.pattern,
     length |-> p.length, password_count |-> p.count]

NotBuilt == [ok |-> FALSE, val |-> <<>>, err |-> "not built"]
NotParsed ==
    [ok |-> FALSE, val |-> <<>>,
     err |-> [kind |-> "not parsed", token |-> <<>>, start |-> 0, end |-> 0]]
NotValidated == [ok |-> FALSE, val |-> <<>>, err |-> "not validated"]

\* parse_exclude_chars and validate_args are not running
ParserIdle ==
    /\ exclude_strings = <<>>
    /\ consumed = 0
    /\ parsed_chars = <<>>
    /\ parse_result = NotParsed
    /\ branch = "none"
ValidatorIdle == validate_result = NotValidated

\* parse_pattern has not been called
NoPatternError == [kind |-> "none", char |-> 0]
NotCompiled == [ok |-> FALSE, val |-> <<>>, err |-> NoPatternError]

\* the command line of `rpg 1`: every option at its default (main.rs 26-91)
DefaultCli ==
    [capitals_off |-> FALSE, numerals_off |-> FALSE, symbols_off |-> FALSE,
     exclude_chars |-> <<>>, include_chars |-> <<>>,
     min_capitals |-> None, min_numerals |-> None, min_symbols |-> None,
     length |-> 16, password_count |-> 1, pattern |-> None]

\* main has not started its stages
NothingParsed ==
    [exclude_chars |-> NotParsed, include_chars |-> NotParsed, pattern |-> NotCompiled]

\* the library is called directly, not through main
CliIdle ==
    /\ cli = DefaultCli
    /\ locals = NothingParsed
    /\ printed = <<>>

Init ==
    /\ pc = "build"
    /\ params \in GenParams
    /\ \E c \in AlphabetChoices : args = MakeArgs(c, params)
    /\ build_result = NotBuilt
    /\ rng \in Rngs
    /\ passwords = <<>>
    /\ calls = <<>>
    /\ ParserIdle
    /\ ValidatorIdle
    /\ CliIdle

Next ==
    \/ BuildCharSet
    \/ GenerateFromPattern
    \/ GenerateWithMinimums
    \/ Return

Spec == Init /\ [][Next]_vars

\* batches over three alphabets: lower case only (every other category off),
\* the list aA0!, the list abAB
BatchAlphabets ==
    { <<None, <<>>, TRUE, TRUE, TRUE>>,
      <<Some(<<97, 65, 48, 33>>), <<>>, FALSE, FALSE, FALSE>>,
      <<Some(<<97, 98, 65, 66>>), <<>>, FALSE, FALSE, FALSE>> }

InitBatch ==
    /\ pc = "build"
    /\ params \in GenParams
    /\ \E c \in BatchAlphabets : args = MakeArgs(c, params)
    /\ build_result = NotBuilt
    /\ rng \in Rngs
    /\ passwords = <<>>
    /\ calls = <<>>
    /\ ParserIdle
    /\ ValidatorIdle
    /\ CliIdle

SpecBatch == InitBatch /\ [][Next]_vars

(***************************************************************************)
(* build_char_set on its own, over a wider set of PasswordArgs.            *)
(***************************************************************************)
SeqsUpTo(S, n) == UNION {[1..k -> S] : k \in 0..n}

\* a, A, 0, !, and s-caron (U+0161, whose low 8 bits are those of a)
IncludeUniverse == {97, 65, 48, 33, 353}
ExcludeUniverse == {97, 65, 33, 353}

IncludeLists == {None} \cup {Some(s) : s \in SeqsUpTo(IncludeUniverse, MaxInclude)}

\* short lists, all of a-z, all of printable ASCII
ExcludeLists ==
    SeqsUpTo(ExcludeUniverse, MaxExclude)
    \cup {RangeInclusive(97, 122), RangeInclusive(32, 126)}

DefaultParams ==
    [length |-> 1, count |-> 1, min_capitals |-> None, min_numerals |-> None,
     min_symbols |-> None, pattern |-> None]

InitBuild ==
    /\ pc = "build"
    /\ params = DefaultParams
    /\ \E inc \in IncludeLists, exc \in ExcludeLists, co, no, so \in BOOLEAN :
           args = MakeArgs(<<inc, exc, co, no, so>>, params)
    /\ build_result = NotBuilt
    /\ rng = [stream |-> <<0>>, pos |-> 1]
    /\ passwords = <<>>
    /\ calls = <<>>
    /\ ParserIdle
    /\ ValidatorIdle
    /\ CliIdle

SpecBuild == InitBuild /\ [][BuildCharSet]_vars

(***************************************************************************)
(* parse_exclude_chars (lib.rs 160-196): one iteration of                  *)
(* `for s in exclude_strings` per step.                                    *)
(***************************************************************************)
\* char::len_utf8: the bytes a char takes in a String
len_utf8(c) ==
    IF c < 128 THEN 1 ELSE IF c < 2048 THEN 2 ELSE IF c < 65536 THEN 3 ELSE 4

\* String::len: the number of bytes, not of chars
RECURSIVE StrLen(_)
StrLen(s) == IF s = <<>> THEN 0 ELSE len_utf8(Head(s)) + StrLen(Tail(s))

\* mutant: the upper end of printable ASCII is tested with `end <= 127`
IsPrintableRangeEndInclusive(start, end) ==
    start <= end /\ start >= 32 /\ end <= 127

\* `start <= end && start >= 32 && end < 127`
IsPrintableRange(start, end) == start <= end /\ start >= 32 /\ end < 127

\* mutant: the range leaves out its last byte (`for byte in start..end`)
RangeCharsExclusive(start, end) ==
    [i \in 1..(end - start) |-> U8AsChar(start + (i - 1))]

\* `for byte in start..=end { exclude_chars.push(byte as char) }`
RangeChars(start, end) ==
    [i \in 1..(end + 1 - start) |-> U8AsChar(start + (i - 1))]

\* `for c in s.chars() { if !exclude_chars.contains(&c) { exclude_chars.push(c) } }`
RECURSIVE PushNew(_, _)
PushNew(acc, s) ==
    IF s = <<>>
    THEN acc
    ELSE PushNew(IF Contains(acc, Head(s)) THEN acc ELSE Append(acc, Head(s)),
                 Tail(s))

\* the String of an Err: format!("Invalid range '{}': start character '{}' is
\* greater than end character '{}'", s, chars[0], chars[2])
InvalidRange(s, start_char, end_char) ==
    [kind |-> "Invalid range", token |-> s, start |-> start_char, end |-> end_char]

NoMessage == [kind |-> "none", token |-> <<>>, start |-> 0, end |-> 0]

ParseOk(v) == [ok |-> TRUE, val |-> v, err |-> NoMessage]
ParseErr(m) == [ok |-> FALSE, val |-> <<>>, err |-> m]

\* the body of the loop for the token s, exclude_chars being acc: the branch
\* taken and exclude_chars after it.  Indexing chars beyond its length panics.
TakeToken(s, acc) ==
    LET chars == s
        literal == [branch |-> "literal", chars |-> PushNew(acc, s), err |-> NoMessage]
        panic == [branch |-> "panic", chars |-> acc, err |-> NoMessage]
    IN  IF StrLen(s) = 3
        THEN IF Len(chars) < 2
             THEN panic                                  \* chars[1]
             ELSE IF chars[2] = 45                        \* chars[1] == '-'
                  THEN IF Len(chars) < 3
                       THEN panic                        \* chars[2]
                       ELSE LET start == CharAsU8(chars[1])
                                end == CharAsU8(chars[3])
                            IN  IF IsPrintableRange(start, end)
                                THEN [branch |-> "range",
                                      chars |-> acc \o RangeChars(start, end),
                                      err |-> NoMessage]
                                ELSE IF start > end
                                     THEN [branch |-> "invalid", chars |-> acc,
                                           err |-> InvalidRange(s, chars[1], chars[3])]
                                     ELSE literal
                  ELSE literal
        ELSE literal

generator_vars == <<args, build_result, params, rng, passwords, calls>>

\* one iteration of `for s in exclude_strings`
ParseToken ==
    /\ pc = "parse"
    /\ consumed < Len(exclude_strings)
    /\ LET t == TakeToken(exclude_strings[consumed + 1], parsed_chars)
       IN  /\ consumed' = consumed + 1
           /\ branch' = t.branch
           /\ parsed_chars' = t.chars
           /\ pc' = CASE t.branch = "panic" -> "panic"
                      [] t.branch = "invalid" -> "parse_error"
                      [] OTHER -> "parse"
           /\ parse_result' =
                  IF t.branch = "invalid" THEN ParseErr(t.err) ELSE parse_result
    /\ UNCHANGED <<exclude_strings, generator_vars, validate_result, cli_vars>>

\* the loop is over: Ok(exclude_chars)
ParseReturn ==
    /\ pc = "parse"
    /\ consumed = Len(exclude_strings)
    /\ parse_result' = ParseOk(parsed_chars)
    /\ pc' = "parsed"
    /\ UNCHANGED <<exclude_strings, consumed, parsed_chars, branch>>
    /\ UNCHANGED <<generator_vars, validate_result, cli_vars>>

\* a and the dash
TokenChars == {97, 45}

\* " -~", "0-1", "b", "c", "a-c", "c-a", "\x1f-9", "a-\x7f", "\x7f-a",
\* "a-\x1f", and tokens with e-acute (2 bytes), s-caron (2 bytes) and the
\* euro sign (3 bytes)
SpecialTokens ==
    { <<32, 45, 126>>, <<48, 45, 49>>, <<98>>, <<99>>,
      <<97, 45, 99>>, <<99, 45, 97>>,
      <<31, 45, 57>>, <<97, 45, 127>>, <<127, 45, 97>>, <<97, 45, 31>>,
      <<233>>, <<233, 45>>, <<45, 233>>, <<233, 97>>, <<233, 45, 97>>,
      <<97, 45, 233>>, <<353, 45, 122>>,
      <<8364>>, <<8364, 45, 97>> }

Tokens == SeqsUpTo(TokenChars, MaxTokLen) \cup SpecialTokens

TokenLists == SeqsUpTo(Tokens, MaxTokens)

\* build_char_set and generate_passwords are not running
GeneratorIdle ==
    /\ params = DefaultParams
    /\ args = MakeArgs(<<None, <<>>, FALSE, FALSE, FALSE>>, DefaultParams)
    /\ build_result = NotBuilt
    /\ rng = [stream |-> <<0>>, pos |-> 1]
    /\ passwords = <<>>
    /\ calls = <<>>

InitParse ==
    /\ pc = "parse"
    /\ exclude_strings \in TokenLists
    /\ consumed = 0
    /\ parsed_chars = <<>>
    /\ parse_result = NotParsed
    /\ branch = "none"
    /\ GeneratorIdle
    /\ ValidatorIdle
    /\ CliIdle

NextParse ==
    \/ ParseToken
    \/ ParseReturn

SpecParse == InitParse /\ [][NextParse]_vars

(***************************************************************************)
(* validate_args (lib.rs 253-281), then build_char_set as main.rs 183-196  *)
(* calls them.                                                             *)
(***************************************************************************)
MAX_PASSWORD_LENGTH == 10000

\* mutant: the count is checked before the length
validate_args_CountFirst(a) ==
    IF a.password_count = 0 THEN Err("InvalidCount")
    ELSE IF a.length = 0 THEN Err("InvalidLength")
    ELSE IF a.length > MAX_PASSWORD_LENGTH THEN Err("InvalidLengthTooLong")
    ELSE IF a.capitals_off /\ a.numerals_off /\ a.symbols_off
         THEN LET test_set == build_char_set(a)
              IN  IF ~test_set.ok THEN Err(test_set.err)
                  ELSE IF test_set.val = <<>> THEN Err("AllTypesDisabled")
                  ELSE Ok(<<>>)
         ELSE Ok(<<>>)

\* mutant: the alphabet is not looked at
validate_args_NoAlphabetCheck(a) ==
    IF a.length = 0 THEN Err("InvalidLength")
    ELSE IF a.length > MAX_PASSWORD_LENGTH THEN Err("InvalidLengthTooLong")
    ELSE IF a.password_count = 0 THEN Err("InvalidCount")
    ELSE Ok(<<>>)

\* mutant: a length of 0 is let through
validate_args_ZeroLengthAllowed(a) ==
    IF a.length > MAX_PASSWORD_LENGTH THEN Err("InvalidLengthTooLong")
    ELSE IF a.password_count = 0 THEN Err("InvalidCount")
    ELSE IF a.capitals_off /\ a.numerals_off /\ a.symbols_off
         THEN LET test_set == build_char_set(a)
              IN  IF ~test_set.ok THEN Err(test_set.err)
                  ELSE IF test_set.val = <<>> THEN Err("AllTypesDisabled")
                  ELSE Ok(<<>>)
         ELSE Ok(<<>>)

\* Ok(()) is Ok(<<>>); `build_char_set(args)?` returns the callee's error
validate_args(a) ==
    IF a.length = 0 THEN Err("InvalidLength")
    ELSE IF a.length > MAX_PASSWORD_LENGTH THEN Err("InvalidLengthTooLong")
    ELSE IF a.password_count = 0 THEN Err("InvalidCount")
    ELSE IF a.capitals_off /\ a.numerals_off /\ a.symbols_off
         THEN LET test_set == build_char_set(a)
              IN  IF ~test_set.ok THEN Err(test_set.err)
                  ELSE IF test_set.val = <<>> THEN Err("AllTypesDisabled")
                  ELSE Ok(<<>>)
         ELSE Ok(<<>>)

\* mutant: the run goes on after a failed validation
ValidateArgsNoExit ==
    /\ pc = "validate"
    /\ validate_result' = validate_args(args)
    /\ pc' = "build"
    /\ UNCHANGED <<generator_vars, parser_vars, cli_vars>>

\* `if let Err(e) = validate_args(&password_args) { ...; exit(1) }`
ValidateArgs ==
    /\ pc = "validate"
    /\ validate_result' = validate_args(args)
    /\ pc' = IF validate_result'.ok THEN "build" ELSE "invalid"
    /\ UNCHANGED <<generator_vars, parser_vars, cli_vars>>

\* lengths around both ends of the accepted range
Lengths ==
    0..MaxLen
    \cup {MAX_PASSWORD_LENGTH - 1, MAX_PASSWORD_LENGTH, MAX_PASSWORD_LENGTH + 1}

\* no list, a, aA, aA0!
ValidateIncludeLists ==
    {None, Some(<<97>>), Some(<<97, 65>>), Some(<<97, 65, 48, 33>>)}

\* nothing, a, a-z, all of printable ASCII
ValidateExcludeLists ==
    {<<>>, <<97>>, RangeInclusive(97, 122), RangeInclusive(32, 126)}

InitValidate ==
    /\ pc = "validate"
    /\ \E len \in Lengths, cnt \in 0..MaxCount :
           params = [DefaultParams EXCEPT !.length = len, !.count = cnt]
    /\ \E inc \in ValidateIncludeLists, exc \in ValidateExcludeLists,
          co, no, so \in BOOLEAN :
           args = MakeArgs(<<inc, exc, co, no, so>>, params)
    /\ build_result = NotBuilt
    /\ rng = [stream |-> <<0>>, pos |-> 1]
    /\ passwords = <<>>
    /\ calls = <<>>
    /\ ParserIdle
    /\ ValidatorIdle
    /\ CliIdle

NextValidate ==
    \/ ValidateArgs
    \/ BuildCharSet

SpecValidate == InitValidate /\ [][NextValidate]_vars

(***************************************************************************)
(* parse_pattern (lib.rs 309-327).  A pattern string is the sequence of    *)
(* the code points of its characters.                                      *)
(***************************************************************************)
\* mutant: only the upper-case letters are recognised
MatchPatternCharUpperOnly(c) ==
    CASE c = 76 -> Some("Lowercase")
      [] c = 85 -> Some("Uppercase")
      [] c = 78 -> Some("Numeric")
      [] c = 83 -> Some("Symbol")
      [] OTHER -> None

\* the arms of `match c`: 'L' | 'l', 'U' | 'u', 'N' | 'n', 'S' | 's', and `_`
MatchPatternChar(c) ==
    CASE c \in {76, 108} -> Some("Lowercase")
      [] c \in {85, 117} -> Some("Uppercase")
      [] c \in {78, 110} -> Some("Numeric")
      [] c \in {83, 115} -> Some("Symbol")
      [] OTHER -> None

\* format!("Invalid pattern character: '{}'. Use L ...", c)
PatternError(c) == [kind |-> "Invalid pattern character", char |-> c]

\* `for c in pattern.chars()`: push the category, or return the error
RECURSIVE PatternCharsLoop(_, _, _)
PatternCharsLoop(pattern, i, result) ==
    IF i > Len(pattern)
    THEN [ok |-> TRUE, val |-> result, err |-> NoPatternError]
    ELSE LET m == MatchPatternChar(pattern[i])
         IN  IF IsSome(m)
             THEN PatternCharsLoop(pattern, i + 1, Append(result, Unwrap(m)))
             ELSE [ok |-> FALSE, val |-> <<>>, err |-> PatternError(pattern[i])]

parse_pattern(pattern) == PatternCharsLoop(pattern, 1, <<>>)

(***************************************************************************)
(* parse_exclude_chars (lib.rs 160-196) as one call: the loop over the     *)
(* tokens, each handled by TakeToken.                                      *)
(***************************************************************************)
RECURSIVE ParseLoop(_, _, _)
ParseLoop(strings, i, acc) ==
    IF i > Len(strings)
    THEN [panic |-> FALSE, result |-> ParseOk(acc)]
    ELSE LET t == TakeToken(strings[i], acc)
         IN  CASE t.branch = "panic" -> [panic |-> TRUE, result |-> NotParsed]
               [] t.branch = "invalid" -> [panic |-> FALSE, result |-> ParseErr(t.err)]
               [] OTHER -> ParseLoop(strings, i + 1, t.chars)

parse_exclude_chars(strings) == ParseLoop(strings, 1, <<>>)

(***************************************************************************)
(* main (main.rs 127-216 and the output that follows): the stages of one   *)
(* run of the command line.  A stage that fails prints its error and       *)
(* calls exit(1); a panic ends the process as well.                        *)
(***************************************************************************)
\* mutant: the pattern is not consulted
effective_length_IgnoresPattern(pattern, length) == length

\* pattern.as_ref().map(|p| p.len() as u32).unwrap_or(args.length)
effective_length(pattern, length) ==
    IF IsSome(pattern) THEN Len(Unwrap(pattern)) ELSE length

\* `let include_chars = if args.include_chars.is_empty() { None } else { Some(chars) }`
IncludeCharsOf(c, l) ==
    IF c.include_chars = <<>> THEN None ELSE Some(l.include_chars.val)

\* PasswordArgs { ... } of main.rs 169-181
password_args(c, l, pattern, length) ==
    [capitals_off |-> c.capitals_off, numerals_off |-> c.numerals_off,
     symbols_off |-> c.symbols_off,
     exclude_chars |-> l.exclude_chars.val, include_chars |-> IncludeCharsOf(c, l),
     min_capitals |-> c.min_capitals, min_numerals |-> c.min_numerals,
     min_symbols |-> c.min_symbols, pattern |-> pattern,
     length |-> length, password_count |-> c.password_count]

\* GenerationParams { ... } of main.rs 199-206
gen_params(c, pattern, length) ==
    [length |-> length, count |-> c.password_count,
     min_capitals |-> c.min_capitals, min_numerals |-> c.min_numerals,
     min_symbols |-> c.min_symbols, pattern |-> pattern]

\* `let exclude_chars = match parse_exclude_chars(args.exclude_chars) {...}`
ParseExclusions ==
    /\ pc = "parse_exclusions"
    /\ LET r == parse_exclude_chars(cli.exclude_chars)
       IN  /\ locals' = [locals EXCEPT !.exclude_chars = r.result]
           /\ pc' = IF r.panic THEN "panic"
                    ELSE IF r.result.ok THEN "parse_inclusions" ELSE "parse_error"
    /\ UNCHANGED <<generator_vars, parser_vars, validate_result, cli, printed>>

\* `let include_chars = if args.include_chars.is_empty() { None } else {...}`
ParseInclusions ==
    /\ pc = "parse_inclusions"
    /\ IF cli.include_chars = <<>>
       THEN /\ pc' = "parse_pattern"
            /\ locals' = locals
       ELSE LET r == parse_exclude_chars(cli.include_chars)
            IN  /\ locals' = [locals EXCEPT !.include_chars = r.result]
                /\ pc' = IF r.panic THEN "panic"
                         ELSE IF r.result.ok THEN "parse_pattern" ELSE "parse_error"
    /\ UNCHANGED <<generator_vars, parser_vars, validate_result, cli, printed>>

\* `let pattern = if let Some(ref pat_str) = args.pattern {...} else { None }`,
\* then effective_length and password_args.  gen_params, which main builds
\* after build_char_set from the same values, is filled here as well.
ParsePattern ==
    /\ pc = "parse_pattern"
    /\ LET r == IF IsSome(cli.pattern)
                THEN parse_pattern(Unwrap(cli.pattern)) ELSE NotCompiled
           pat == IF IsSome(cli.pattern) THEN Some(r.val) ELSE None
           len == effective_length(pat, cli.length)
       IN  /\ locals' = [locals EXCEPT !.pattern = r]
           /\ IF IsSome(cli.pattern) /\ ~r.ok
              THEN /\ pc' = "pattern_error"
                   /\ UNCHANGED <<args, params>>
              ELSE /\ pc' = "validate"
                   /\ args' = password_args(cli, locals, pat, len)
                   /\ params' = gen_params(cli, pat, len)
    /\ UNCHANGED <<build_result, rng, passwords, calls>>
    /\ UNCHANGED <<parser_vars, validate_result, cli, printed>>

\* the passwords are written out
Output ==
    /\ pc = "done"
    /\ printed' = passwords
    /\ pc' = "exit"
    /\ UNCHANGED <<generator_vars, parser_vars, validate_result, cli, locals>>

\* --exclude-chars: nothing, "b-z", " -~", "z-a", the euro sign
CliExcludeTokens ==
    { <<>>, << <<98, 45, 122>> >>, << <<32, 45, 126>> >>, << <<122, 45, 97>> >>,
      << <<8364>> >> }

\* --include-chars: nothing, "a", "b,a-c", "a,s-caron", "c-a", ""
CliIncludeTokens ==
    { <<>>, << <<97>> >>, << <<98>>, <<97, 45, 99>> >>, << <<97>>, <<353>> >>,
      << <<99, 45, 97>> >>, << <<>> >> }

\* L, n and x
CliPatternChars == {76, 110, 120}

CliPatterns == {None} \cup {Some(s) : s \in SeqsUpTo(CliPatternChars, MaxPat)}

CliLengths == 0..MaxLen \cup {MAX_PASSWORD_LENGTH + 1}

\* the command lines explored: the three categories all on or all off, the
\* three minimums all absent or all MaxMin
CliRequests ==
    {c \in [capitals_off : BOOLEAN, numerals_off : BOOLEAN, symbols_off : BOOLEAN,
            exclude_chars : CliExcludeTokens, include_chars : CliIncludeTokens,
            min_capitals : {None, Some(MaxMin)}, min_numerals : {None, Some(MaxMin)},
            min_symbols : {None, Some(MaxMin)},
            length : CliLengths, password_count : 0..MaxCount,
            pattern : CliPatterns] :
        /\ c.capitals_off = c.numerals_off /\ c.numerals_off = c.symbols_off
        /\ c.min_capitals = c.min_numerals /\ c.min_numerals = c.min_symbols}

InitCli ==
    /\ pc = "parse_exclusions"
    /\ cli \in CliRequests
    /\ locals = NothingParsed
    /\ printed = <<>>
    /\ GeneratorIdle
    /\ ParserIdle
    /\ ValidatorIdle

NextCli ==
    \/ ParseExclusions
    \/ ParseInclusions
    \/ ParsePattern
    \/ ValidateArgs
    \/ BuildCharSet
    \/ GenerateFromPattern
    \/ GenerateWithMinimums
    \/ Return
    \/ Output

SpecCli == InitCli /\ [][NextCli]_vars

(***************************************************************************)
(* parse_pattern on its own, over every short string of these characters.  *)
(***************************************************************************)
MaxPatStr == 3

\* L l U u N n S s, and X, 1, e-acute
PatternStringChars == {76, 108, 85, 117, 78, 110, 83, 115, 88, 49, 233}

InitPattern ==
    /\ pc = "parse_pattern"
    /\ \E s \in SeqsUpTo(PatternStringChars, MaxPatStr) :
           cli = [DefaultCli EXCEPT !.pattern = Some(s)]
    /\ locals = [NothingParsed EXCEPT !.exclude_chars = ParseOk(<<>>)]
    /\ printed = <<>>
    /\ GeneratorIdle
    /\ ParserIdle
    /\ ValidatorIdle

SpecPattern == InitPattern /\ [][ParsePattern]_vars

(***************************************************************************)
(* The size of the work generate_password_with_minimums (lib.rs 394-464)   *)
(* is handed by a validated request: the number of characters its loops    *)
(* push.  The passwords themselves are out of reach of the model at these  *)
(* sizes, so the request is followed up to the call.                       *)
(***************************************************************************)
\* `for _ in 0..min { if !set.is_empty() { push } }`: pushes of one category
RequiredPushes(subset, min) ==
    IF IsSome(min) /\ subset # <<>> THEN Unwrap(min) ELSE 0

\* pass_vec.len() once `while pass_vec.len() < length` has ended
pass_vec_len(cs, length, min_capitals, min_numerals, min_symbols) ==
    LET required == RequiredPushes(uppercase_subset(cs), min_capitals)
                    + RequiredPushes(numeric_subset(cs), min_numerals)
                    + RequiredPushes(symbols_subset(cs), min_symbols)
    IN  IF required > length THEN required ELSE length

\* no minimum, a small one, one above the ceiling of the length
LargeMinimums == {None, Some(MaxMin), Some(MAX_PASSWORD_LENGTH + 1)}

\* every category, lower case only, the list aA0!
MinimumsAlphabets ==
    { <<None, <<>>, FALSE, FALSE, FALSE>>,
      <<None, <<>>, TRUE, TRUE, TRUE>>,
      <<Some(<<97, 65, 48, 33>>), <<>>, FALSE, FALSE, FALSE>> }

InitMinimums ==
    /\ pc = "validate"
    /\ \E len \in {1, MaxLen, MAX_PASSWORD_LENGTH},
          mc \in LargeMinimums, mn \in LargeMinimums, ms \in LargeMinimums :
           params = [DefaultParams EXCEPT !.length = len, !.min_capitals = mc,
                                          !.min_numerals = mn, !.min_symbols = ms]
    /\ \E c \in MinimumsAlphabets : args = MakeArgs(c, params)
    /\ build_result = NotBuilt
    /\ rng = [stream |-> <<0>>, pos |-> 1]
    /\ passwords = <<>>
    /\ calls = <<>>
    /\ ParserIdle
    /\ ValidatorIdle
    /\ CliIdle

SpecMinimums == InitMinimums /\ [][NextValidate]_vars

(***************************************************************************)
(* Vocabulary of the properties.                                           *)
(***************************************************************************)
Max(a, b) == IF a >= b THEN a ELSE b

\* a configured minimum as a number (an absent one asks for nothing)
MinOrZero(m) == IF m = None THEN 0 ELSE m[1]

IsLowerChar(c) == c \in 97..122
IsUpperChar(c) == c \in 65..90
IsDigitChar(c) == c \in 48..57
IsSymbolChar(c) == ~IsLowerChar(c) /\ ~IsUpperChar(c) /\ ~IsDigitChar(c)

InCategory(c, cat) ==
    CASE cat = "Lowercase" -> IsLowerChar(c)
      [] cat = "Uppercase" -> IsUpperChar(c)
      [] cat = "Numeric" -> IsDigitChar(c)
      [] cat = "Symbol" -> IsSymbolChar(c)

\* the characters of an alphabet, and whether it has one of a category
AlphabetChars(cs) == {cs[i] : i \in DOMAIN cs}
HasCategory(cs, cat) == \E i \in DOMAIN cs : InCategory(cs[i], cat)

CountIn(pass, cat) == Cardinality({i \in DOMAIN pass : InCategory(pass[i], cat)})

MinimumsMode == pc \in {"generate", "done"} /\ params.pattern = None
PatternModeRun == pc \in {"generate", "done"} /\ params.pattern # None

(***************************************************************************)
(* C1.  As claimed: in minimum-requirements mode every password has        *)
(* length max(L, c+n+s), c, n, s being the configured minimums.            *)
(***************************************************************************)
C1_LengthIsMaxOfLengthAndMinimumSum ==
    MinimumsMode =>
        \A k \in DOMAIN passwords :
            Len(passwords[k]) =
                Max(params.length,
                    MinOrZero(params.min_capitals) + MinOrZero(params.min_numerals)
                    + MinOrZero(params.min_symbols))

\* what a configured minimum adds: nothing when the alphabet has no
\* character of its category
Effective(m, cat) == IF HasCategory(char_set, cat) THEN MinOrZero(m) ELSE 0

(***************************************************************************)
(* C1, amended.  In minimum-requirements mode every password has length    *)
(* max(L, m), m being the sum of the configured minimums whose category    *)
(* has at least one character in the alphabet.                             *)
(***************************************************************************)
C1_LengthIsMaxOfLengthAndSatisfiableMinimums ==
    MinimumsMode =>
        \A k \in DOMAIN passwords :
            Len(passwords[k]) =
                Max(params.length,
                    Effective(params.min_capitals, "Uppercase")
                    + Effective(params.min_numerals, "Numeric")
                    + Effective(params.min_symbols, "Symbol"))

\* a password longer than the requested length, and one of exactly that length
\* although minimums were configured
C1_Witness ==
    /\ MinimumsMode
    /\ passwords # <<>>
    /\ Len(passwords[1]) > params.length
    /\ Len(passwords[1]) = MinOrZero(params.min_capitals)
           + MinOrZero(params.min_numerals) + MinOrZero(params.min_symbols)
    /\ MinOrZero(params.min_capitals) > 0 /\ MinOrZero(params.min_numerals) > 0
    /\ MinOrZero(params.min_symbols) > 0

(***************************************************************************)
(* C2.  In minimum-requirements mode, for each category whose minimum is   *)
(* configured and whose subset of the alphabet is non-empty, every         *)
(* password holds at least that many characters of the category.          *)
(***************************************************************************)
C2_MinimumsAreMet ==
    MinimumsMode =>
        \A k \in DOMAIN passwords :
            /\ HasCategory(char_set, "Uppercase") =>
                   CountIn(passwords[k], "Uppercase") >= MinOrZero(params.min_capitals)
            /\ HasCategory(char_set, "Numeric") =>
                   CountIn(passwords[k], "Numeric") >= MinOrZero(params.min_numerals)
            /\ HasCategory(char_set, "Symbol") =>
                   CountIn(passwords[k], "Symbol") >= MinOrZero(params.min_symbols)

\* the minimums leave no room for fill: the password is exactly the required
\* characters, MaxMin of each category
C2_Witness ==
    /\ MinimumsMode
    /\ passwords # <<>>
    /\ params.min_capitals = Some(MaxMin) /\ params.min_numerals = Some(MaxMin)
    /\ params.min_symbols = Some(MaxMin)
    /\ MaxMin > 0
    /\ \A cat \in {"Uppercase", "Numeric", "Symbol"} :
           /\ HasCategory(char_set, cat)
           /\ CountIn(passwords[1], cat) = MaxMin
    /\ HasCategory(char_set, "Lowercase")

\* the raw value the random source yields n draws after state r
RawAfter(r, n) == r.stream[((r.pos - 1 + n) % Len(r.stream)) + 1]

(***************************************************************************)
(* C3.  In pattern mode, when every category the pattern names has a       *)
(* character in the alphabet, every password has the pattern's length and  *)
(* its character at each position belongs to the category the pattern      *)
(* names there (a symbol being an alphabet character that is no letter     *)
(* and no digit).                                                          *)
(***************************************************************************)
C3_PatternIsFollowed ==
    PatternModeRun =>
        LET pat == params.pattern[1]
        IN  (\A i \in DOMAIN pat : HasCategory(char_set, pat[i])) =>
                \A k \in DOMAIN passwords :
                    /\ Len(passwords[k]) = Len(pat)
                    /\ \A i \in DOMAIN pat :
                           /\ InCategory(passwords[k][i], pat[i])
                           /\ passwords[k][i] \in AlphabetChars(char_set)

\* a password for a pattern of MaxPat positions naming two categories, over
\* an alphabet that also has characters of the categories not named
C3_Witness ==
    /\ PatternModeRun
    /\ passwords # <<>>
    /\ LET pat == params.pattern[1]
       IN  /\ Len(pat) = MaxPat /\ MaxPat >= 2
           /\ pat[1] # pat[2]
           /\ \A cat \in PatternChars : HasCategory(char_set, cat)
           /\ \A i \in DOMAIN pat : InCategory(passwords[1][i], pat[i])

(***************************************************************************)
(* C4.  Pattern mode over a non-empty alphabet never fails, every password *)
(* has exactly the pattern's length, and at a position whose category has  *)
(* no character in the alphabet the character is drawn from the entire     *)
(* alphabet: it is the alphabet's element at the index the random source   *)
(* gives for the alphabet's length.                                        *)
(***************************************************************************)
C4_PatternFallsBackToAlphabet ==
    /\ (params.pattern # None /\ build_result.ok) => pc # "panic"
    /\ PatternModeRun =>
           LET pat == params.pattern[1]
           IN  \A k \in DOMAIN passwords :
                   /\ Len(passwords[k]) = Len(pat)
                   /\ \A i \in DOMAIN pat :
                          ~HasCategory(char_set, pat[i]) =>
                              passwords[k][i] =
                                  char_set[(RawAfter(calls[k].rng, i - 1)
                                            % Len(char_set)) + 1]

\* a password with a fallback position filled by a character of another
\* category, next to a position filled from its own category
C4_Witness ==
    /\ PatternModeRun
    /\ passwords # <<>>
    /\ LET pat == params.pattern[1]
       IN  \E i, j \in DOMAIN pat :
               /\ ~HasCategory(char_set, pat[i])
               /\ ~InCategory(passwords[1][i], pat[i])
               /\ HasCategory(char_set, pat[j])
               /\ InCategory(passwords[1][j], pat[j])

(***************************************************************************)
(* C5.  Every character of every password generate_passwords returns, in   *)
(* either mode, is the character form of a byte of the alphabet passed in, *)
(* and so is none of the characters the exclusion filter removed.          *)
(***************************************************************************)
C5_PasswordsStayInAlphabet ==
    \A k \in DOMAIN passwords :
        \A i \in DOMAIN passwords[k] :
            /\ \E j \in DOMAIN char_set : passwords[k][i] = U8AsChar(char_set[j])
            /\ ~Contains(args.exclude_chars, passwords[k][i])

\* a finished batch over an alphabet from which the filter removed a character
C5_Witness ==
    /\ pc = "done"
    /\ Len(passwords) = MaxCount /\ MaxCount > 0
    /\ passwords[1] # <<>>
    /\ \E i \in DOMAIN args.exclude_chars :
           Contains(UnfilteredChars(args), CharAsU8(args.exclude_chars[i]))

(***************************************************************************)
(* C7.  generate_passwords returns exactly params.count passwords, in the  *)
(* order they were generated, each produced by pattern mode when a pattern *)
(* is present and by minimum-requirements mode otherwise.                  *)
(***************************************************************************)
C7_CountOrderAndMode ==
    pc = "done" =>
        /\ Len(passwords) = params.count
        /\ Len(calls) = params.count
        /\ \A k \in DOMAIN calls :
               /\ passwords[k] = calls[k].pass
               /\ calls[k].mode =
                      IF params.pattern # None THEN "pattern" ELSE "minimums"
               /\ passwords[k] =
                      IF params.pattern # None
                      THEN generate_password_from_pattern(
                               char_set, params.pattern[1], calls[k].rng).pass
                      ELSE generate_password_with_minimums(
                               char_set, params.length, params.min_capitals,
                               params.min_numerals, params.min_symbols,
                               calls[k].rng).pass

(***************************************************************************)
(* C6.  Determinism of generate_passwords in its inputs is not stated: the *)
(* functions of the program are operators here, and an operator applied    *)
(* twice to equal arguments is equal whatever the operator is.             *)
(***************************************************************************)

\* a returned batch of MaxCount passwords that are not all alike
C7_Witness ==
    /\ pc = "done"
    /\ params.count = MaxCount /\ MaxCount >= 2
    /\ Len(passwords) = MaxCount
    /\ passwords[1] # passwords[2]

(***************************************************************************)
(* Vocabulary of the properties of build_char_set.                         *)
(***************************************************************************)
Built == pc # "build"
ExcludeSet == {args.exclude_chars[i] : i \in DOMAIN args.exclude_chars}

\* the positions of a basis whose byte, as a character, is not excluded
KeptPositions(basis) == {i \in DOMAIN basis : basis[i] \notin ExcludeSet}

\* the j-th of a set of positions, in ascending order
NthOf(K, j) == CHOOSE i \in K : Cardinality({k \in K : k <= i}) = j

AllToggles ==
    {[args EXCEPT !.capitals_off = co, !.numerals_off = no, !.symbols_off = so] :
        co \in BOOLEAN, no \in BOOLEAN, so \in BOOLEAN}

(***************************************************************************)
(* C8.  No byte of an alphabet build_char_set returns has its character    *)
(* form in exclude_chars, whichever branch built it, and the alphabet is   *)
(* exactly the non-excluded bytes of the unfiltered basis, in their        *)
(* original order.                                                         *)
(***************************************************************************)
C8_ExclusionFilter ==
    (Built /\ build_result.ok) =>
        LET alphabet == build_result.val
            basis == UnfilteredChars(args)
            K == KeptPositions(basis)
        IN  /\ \A i \in DOMAIN alphabet : alphabet[i] \notin ExcludeSet
            /\ Len(alphabet) = Cardinality(K)
            /\ \A j \in DOMAIN alphabet : alphabet[j] = basis[NthOf(K, j)]

\* an alphabet from an inclusion list with a byte removed, the exclusions
\* also naming a character above U+00FF
C8_Witness ==
    /\ Built /\ build_result.ok
    /\ args.include_chars # None
    /\ Len(build_result.val) < Len(UnfilteredChars(args))
    /\ args.exclude_chars # <<>>
    /\ \E i \in DOMAIN args.exclude_chars : args.exclude_chars[i] > 255

\* an alphabet from the toggles with two bytes removed
C8_WitnessToggles ==
    /\ Built /\ build_result.ok
    /\ args.include_chars = None
    /\ ~args.capitals_off /\ args.symbols_off
    /\ Len(build_result.val) + 2 = Len(UnfilteredChars(args))
    /\ Contains(build_result.val, 98) /\ Contains(build_result.val, 66)

(***************************************************************************)
(* C9.  As claimed: with a non-empty inclusion list the alphabet is        *)
(* exactly the inclusion list, in its order, minus the excluded            *)
(* characters (the call failing when nothing is left), and it is the same  *)
(* for all eight settings of the three toggles.                            *)
(***************************************************************************)
C9_AlphabetIsIncludeListMinusExcluded ==
    (Built /\ args.include_chars # None /\ args.include_chars # Some(<<>>)) =>
        LET inc == args.include_chars[1]
            NotExcluded(c) == c \notin ExcludeSet
            expected == SelectSeq(inc, NotExcluded)
        IN  /\ build_result.ok = (expected # <<>>)
            /\ build_result.ok =>
                   [i \in DOMAIN build_result.val |-> U8AsChar(build_result.val[i])]
                       = expected
            /\ \A a \in AllToggles : build_char_set(a) = build_result

(***************************************************************************)
(* C10.  Without an inclusion list the unfiltered alphabet is a-z, then    *)
(* A-Z iff capitals are on, 0-9 iff numerals are on, and 33-47, 58-64,     *)
(* 91-96, 123-126 iff symbols are on; with no exclusions the alphabet      *)
(* returned is that sequence, of 26 + 26 + 10 + 32 bytes counting the      *)
(* enabled categories, and no alphabet returned contains the space.        *)
(***************************************************************************)
C10_ToggleAlphabet ==
    (Built /\ args.include_chars = None) =>
        LET expected ==
                RangeInclusive(97, 122)
                \o (IF args.capitals_off THEN <<>> ELSE RangeInclusive(65, 90))
                \o (IF args.numerals_off THEN <<>> ELSE RangeInclusive(48, 57))
                \o (IF args.symbols_off THEN <<>>
                    ELSE RangeInclusive(33, 47) \o RangeInclusive(58, 64)
                         \o RangeInclusive(91, 96) \o RangeInclusive(123, 126))
            size == 26 + (IF args.capitals_off THEN 0 ELSE 26)
                       + (IF args.numerals_off THEN 0 ELSE 10)
                       + (IF args.symbols_off THEN 0 ELSE 32)
        IN  /\ UnfilteredChars(args) = expected
            /\ args.exclude_chars = <<>> =>
                   /\ build_result.ok
                   /\ build_result.val = expected
                   /\ Len(build_result.val) = size
            /\ build_result.ok =>
                   /\ ~Contains(build_result.val, 32)
                   /\ \A i \in DOMAIN build_result.val :
                          Contains(expected, build_result.val[i])

\* capitals off, numerals and symbols on, nothing excluded: 68 bytes
C10_Witness ==
    /\ Built /\ build_result.ok
    /\ args.include_chars = None /\ args.exclude_chars = <<>>
    /\ args.capitals_off /\ ~args.numerals_off /\ ~args.symbols_off
    /\ Len(build_result.val) = 68

\* the alphabet the category toggles of a describe, before the filter
ExpectedToggleBasis(a) ==
    RangeInclusive(97, 122)
    \o (IF a.capitals_off THEN <<>> ELSE RangeInclusive(65, 90))
    \o (IF a.numerals_off THEN <<>> ELSE RangeInclusive(48, 57))
    \o (IF a.symbols_off THEN <<>>
        ELSE RangeInclusive(33, 47) \o RangeInclusive(58, 64)
             \o RangeInclusive(91, 96) \o RangeInclusive(123, 126))

\* what build_char_set is to return for a basis: its bytes whose character
\* is not excluded, or EmptyCharacterSet when there is none
ExpectedResult(basis) ==
    LET NotExcluded(b) == b \notin ExcludeSet
        left == SelectSeq(basis, NotExcluded)
    IN  IF left = <<>>
        THEN [ok |-> FALSE, val |-> <<>>, err |-> "EmptyCharacterSet"]
        ELSE [ok |-> TRUE, val |-> left, err |-> "none"]

(***************************************************************************)
(* C11.  build_char_set fails exactly when no byte of the basis is left    *)
(* by the exclusion filter; its only error is EmptyCharacterSet and every  *)
(* Ok result has at least one byte.                                        *)
(***************************************************************************)
C11_EmptyCharacterSetIffNothingLeft ==
    Built =>
        LET kept == KeptPositions(UnfilteredChars(args))
        IN  /\ build_result.ok <=> kept # {}
            /\ ~build_result.ok =>
                   build_result.err = "EmptyCharacterSet" /\ build_result.val = <<>>
            /\ build_result.ok => Len(build_result.val) >= 1

\* all toggles off and only the letter a excluded: the 25 other letters
C11_Witness ==
    /\ Built /\ build_result.ok
    /\ args.include_chars = None
    /\ args.capitals_off /\ args.numerals_off /\ args.symbols_off
    /\ args.exclude_chars = <<97>>
    /\ Len(build_result.val) = 25

\* an inclusion list wholly excluded: EmptyCharacterSet
C11_WitnessEmpty ==
    /\ Built /\ ~build_result.ok
    /\ build_result.err = "EmptyCharacterSet"
    /\ args.include_chars = Some(<<97>>) /\ args.exclude_chars = <<97>>

(***************************************************************************)
(* C12.  As claimed: the inclusion list is the basis of the alphabet only  *)
(* if it is non-empty; when it is absent, or present but empty, the        *)
(* alphabet is built from the category toggles.                            *)
(***************************************************************************)
C12_IncludeListUsedOnlyIfNonEmpty ==
    Built =>
        build_result =
            ExpectedResult(IF args.include_chars # None /\ args.include_chars[1] # <<>>
                           THEN [i \in DOMAIN args.include_chars[1] |->
                                    args.include_chars[1][i] % 256]
                           ELSE ExpectedToggleBasis(args))

(***************************************************************************)
(* C12, amended.  The inclusion list is the basis of the alphabet whenever *)
(* it is present, empty or not (an empty one leaves nothing, so the result *)
(* is EmptyCharacterSet whatever the toggles); the alphabet is built from  *)
(* the category toggles only when the list is absent.                      *)
(***************************************************************************)
C12_IncludeListUsedWheneverPresent ==
    Built =>
        /\ build_result =
               ExpectedResult(IF args.include_chars # None
                              THEN [i \in DOMAIN args.include_chars[1] |->
                                       args.include_chars[1][i] % 256]
                              ELSE ExpectedToggleBasis(args))
        /\ args.include_chars = Some(<<>>) =>
               ~build_result.ok /\ build_result.err = "EmptyCharacterSet"

\* a present but empty inclusion list, every category on, nothing excluded
C12_Witness ==
    /\ Built
    /\ args.include_chars = Some(<<>>)
    /\ args.exclude_chars = <<>>
    /\ ~args.capitals_off /\ ~args.numerals_off /\ ~args.symbols_off
    /\ ~build_result.ok

(***************************************************************************)
(* Vocabulary of the properties of parse_exclude_chars.                    *)
(***************************************************************************)
\* the loop is about to take a token, and the token it takes
ParsingToken == pc = "parse" /\ consumed < Len(exclude_strings)
CurrentToken == exclude_strings[consumed + 1]

\* the call is over: it returned Ok, returned Err, or panicked
ParseOver == pc \in {"parsed", "parse_error", "panic"}

\* the shape X-Y: exactly three characters, the middle one the dash
RangeShaped(tok) == Len(tok) = 3 /\ tok[2] = 45

Printable(c) == c \in 32..126

\* a well-formed in-range triple
WellFormedRange(tok) ==
    /\ RangeShaped(tok)
    /\ Printable(tok[1]) /\ Printable(tok[3])
    /\ tok[1] <= tok[3]

\* a triple X-Y with X > Y
StartAboveEnd(tok) == RangeShaped(tok) /\ tok[1] > tok[3]

\* a triple X-Y with an endpoint outside printable ASCII
OutsidePrintable(tok) ==
    RangeShaped(tok) /\ (~Printable(tok[1]) \/ ~Printable(tok[3]))

\* a character whose UTF-8 encoding is one byte
SingleByte(c) == c < 128

NoDuplicates(s) == \A i, j \in DOMAIN s : s[i] = s[j] => i = j

CharsOf(s) == {s[i] : i \in DOMAIN s}

FirstIndex(s, c) == CHOOSE i \in DOMAIN s : s[i] = c /\ \A j \in 1..(i - 1) : s[j] # c

\* new is old followed by the characters of tok that old lacks, each once,
\* in the order of their first occurrence in tok
IsLiteralAppend(old, tok, new) ==
    /\ Len(new) >= Len(old)
    /\ SubSeq(new, 1, Len(old)) = old
    /\ LET added == SubSeq(new, Len(old) + 1, Len(new))
       IN  /\ NoDuplicates(added)
           /\ CharsOf(added) = CharsOf(tok) \ CharsOf(old)
           /\ \A i, j \in DOMAIN added :
                  i < j => FirstIndex(tok, added[i]) < FirstIndex(tok, added[j])

\* the Err the call returns for the triple tok
InvalidRangeError(tok) ==
    [ok |-> FALSE, val |-> <<>>,
     err |-> [kind |-> "Invalid range", token |-> tok,
              start |-> tok[1], end |-> tok[3]]]

(***************************************************************************)
(* C13.  As claimed: whenever parse_exclude_chars succeeds, no character   *)
(* occurs more than once in the sequence it returns.                       *)
(***************************************************************************)
C13_ResultIsDeduplicated ==
    (pc = "parsed" /\ parse_result.ok) => NoDuplicates(parse_result.val)

(***************************************************************************)
(* C14.  A token is handled as a range exactly when it has three           *)
(* characters, the middle one the dash, both endpoints in 32..126 and      *)
(* start <= end; such a token adds every byte of [start, end], ascending,  *)
(* to the result and the loop goes on.                                     *)
(***************************************************************************)
C14_RangeTokens ==
    [][ParsingToken =>
           /\ (branch' = "range") <=> WellFormedRange(CurrentToken)
           /\ WellFormedRange(CurrentToken) =>
                  /\ parsed_chars' =
                         parsed_chars
                         \o RangeInclusive(CurrentToken[1], CurrentToken[3])
                  /\ pc' = "parse"
                  /\ consumed' = consumed + 1]_vars

\* "a-a" then " -~": the letter a, then all 95 printable characters
C14_Witness ==
    /\ pc = "parsed"
    /\ exclude_strings = << <<97, 45, 97>>, <<32, 45, 126>> >>
    /\ parse_result.ok
    /\ parse_result.val = <<97>> \o RangeInclusive(32, 126)

(***************************************************************************)
(* C15.  As claimed: a list holding a triple X-Y with X > Y makes the call *)
(* fail with the Invalid range error naming the (first such) token, X and  *)
(* Y, wherever the token stands, and no character list is returned.        *)
(***************************************************************************)
C15_StartAboveEndFailsTheCall ==
    (ParseOver /\ \E i \in DOMAIN exclude_strings : StartAboveEnd(exclude_strings[i])) =>
        LET first == CHOOSE i \in DOMAIN exclude_strings :
                         /\ StartAboveEnd(exclude_strings[i])
                         /\ \A j \in 1..(i - 1) : ~StartAboveEnd(exclude_strings[j])
        IN  /\ pc = "parse_error"
            /\ parse_result = InvalidRangeError(exclude_strings[first])

(***************************************************************************)
(* C16.  As claimed: a triple X-Y with an endpoint outside printable ASCII *)
(* is never handled as a range and never produces an error; its            *)
(* characters, the dash included, are added as literal characters.         *)
(***************************************************************************)
C16_OutsidePrintableIsLiteral ==
    [][(ParsingToken /\ OutsidePrintable(CurrentToken)) =>
           /\ branch' # "range"
           /\ pc' = "parse"
           /\ IsLiteralAppend(parsed_chars, CurrentToken, parsed_chars')]_vars

(***************************************************************************)
(* C16, amended.  A triple X-Y with an endpoint outside printable ASCII is *)
(* never handled as a range.  When X and Y are single-byte characters and  *)
(* X > Y it makes the call fail with the Invalid range error; otherwise    *)
(* it produces no error, its characters, the dash included, are added as   *)
(* literal characters and the loop goes on.                                *)
(***************************************************************************)
C16_OutsidePrintableIsLiteralOrInvalid ==
    [][(ParsingToken /\ OutsidePrintable(CurrentToken)) =>
           /\ branch' # "range"
           /\ IF /\ SingleByte(CurrentToken[1]) /\ SingleByte(CurrentToken[3])
                 /\ CurrentToken[1] > CurrentToken[3]
              THEN /\ pc' = "parse_error"
                   /\ parse_result' = InvalidRangeError(CurrentToken)
              ELSE /\ pc' = "parse"
                   /\ consumed' = consumed + 1
                   /\ parse_result' = parse_result
                   /\ IsLiteralAppend(parsed_chars, CurrentToken, parsed_chars')]_vars

\* "-" then "\x1f-9": the dash is skipped, \x1f and 9 are added
C16_Witness ==
    /\ pc = "parsed"
    /\ exclude_strings = << <<45>>, <<31, 45, 57>> >>
    /\ branch = "literal"
    /\ parse_result.ok
    /\ parse_result.val = <<45, 31, 57>>

\* "a" then "a-\x1f": the Invalid range error
C16_WitnessInvalid ==
    /\ pc = "parse_error"
    /\ exclude_strings = << <<97>>, <<97, 45, 31>> >>
    /\ parse_result = InvalidRangeError(<<97, 45, 31>>)

(***************************************************************************)
(* C17.  As claimed: every token that is neither a well-formed in-range    *)
(* triple nor a triple with start > end, whatever its characters and       *)
(* their UTF-8 lengths, is processed without aborting: its characters not  *)
(* yet in the result are appended in first-seen order, the others skipped. *)
(***************************************************************************)
C17_LiteralTokensNeverAbort ==
    [][(ParsingToken /\ ~WellFormedRange(CurrentToken) /\ ~StartAboveEnd(CurrentToken)) =>
           /\ pc' = "parse"
           /\ consumed' = consumed + 1
           /\ IsLiteralAppend(parsed_chars, CurrentToken, parsed_chars')]_vars

(***************************************************************************)
(* Vocabulary of the properties of validate_args.                          *)
(***************************************************************************)
Validated == validate_result # NotValidated

\* build_char_set has been called after a successful validation
BuiltAfterValidation == validate_result.ok /\ pc \in {"generate", "error"}

AllCategoriesOff == args.capitals_off /\ args.numerals_off /\ args.symbols_off

BoundsOk == args.length \in 1..10000 /\ args.password_count >= 1

\* no byte of the basis is left by the exclusion filter
NothingLeft == KeptPositions(UnfilteredChars(args)) = {}

(***************************************************************************)
(* C18.  validate_args returns the first bound check that fails, in the    *)
(* order length = 0 (InvalidLength), length > 10,000                       *)
(* (InvalidLengthTooLong), count = 0 (InvalidCount); a length in 1..10,000 *)
(* with a count >= 1 fails none of the three.                              *)
(***************************************************************************)
C18_BoundChecksInOrder ==
    Validated =>
        /\ args.length = 0 =>
               ~validate_result.ok /\ validate_result.err = "InvalidLength"
        /\ args.length > 10000 =>
               ~validate_result.ok /\ validate_result.err = "InvalidLengthTooLong"
        /\ (args.length \in 1..10000 /\ args.password_count = 0) =>
               ~validate_result.ok /\ validate_result.err = "InvalidCount"
        /\ BoundsOk =>
               validate_result.err
                   \notin {"InvalidLength", "InvalidLengthTooLong", "InvalidCount"}

\* length 0 and count 0 together: InvalidLength
C18_Witness ==
    /\ Validated
    /\ args.length = 0 /\ args.password_count = 0
    /\ validate_result.err = "InvalidLength"

\* the longest length accepted
C18_WitnessCeiling ==
    /\ Validated
    /\ args.length = 10000 /\ args.password_count >= 1
    /\ validate_result.ok

(***************************************************************************)
(* C19.  As claimed: with a valid length and count and all three           *)
(* categories disabled, validate_args fails with AllTypesDisabled when the *)
(* alphabet is empty after the exclusions, and returns Ok when a character *)
(* is left.                                                                *)
(***************************************************************************)
C19_AllTypesDisabledError ==
    (Validated /\ BoundsOk /\ AllCategoriesOff) =>
        IF NothingLeft
        THEN ~validate_result.ok /\ validate_result.err = "AllTypesDisabled"
        ELSE validate_result.ok

(***************************************************************************)
(* C20.  As claimed: whenever validate_args returns Ok, build_char_set on  *)
(* the same arguments returns a non-empty alphabet.                        *)
(***************************************************************************)
C20_ValidatedAlphabetIsNonEmpty ==
    BuiltAfterValidation => build_result.ok /\ build_result.val # <<>>

(***************************************************************************)
(* C20, amended.  Whenever validate_args returns Ok with all three         *)
(* categories disabled, build_char_set on the same arguments returns a     *)
(* non-empty alphabet; with a category enabled validate_args returns Ok    *)
(* for every length and count in bounds, whatever the alphabet.            *)
(***************************************************************************)
C20_ValidatedAlphabetIsNonEmptyWhenAllOff ==
    /\ (BuiltAfterValidation /\ AllCategoriesOff) =>
           build_result.ok /\ build_result.val # <<>>
    /\ (Validated /\ BoundsOk /\ ~AllCategoriesOff) => validate_result.ok
    /\ (Validated /\ BoundsOk /\ AllCategoriesOff) =>
           (validate_result.ok <=> ~NothingLeft)

\* all categories off and the letter a excluded: accepted, 25 letters built
C20_Witness ==
    /\ BuiltAfterValidation
    /\ AllCategoriesOff
    /\ args.include_chars = None /\ args.exclude_chars = <<97>>
    /\ pc = "generate"
    /\ Len(build_result.val) = 25

\* capitals on and everything excluded: accepted, then EmptyCharacterSet
C20_WitnessEmpty ==
    /\ BuiltAfterValidation
    /\ ~args.capitals_off
    /\ pc = "error"
    /\ build_result.err = "EmptyCharacterSet"

(***************************************************************************)
(* Vocabulary of the properties of main.                                   *)
(***************************************************************************)
\* the positions main can move to from each position
NextStages(stage) ==
    CASE stage = "parse_exclusions" -> {"parse_inclusions", "parse_error", "panic"}
      [] stage = "parse_inclusions" -> {"parse_pattern", "parse_error", "panic"}
      [] stage = "parse_pattern" -> {"validate", "pattern_error"}
      [] stage = "validate" -> {"build", "invalid"}
      [] stage = "build" -> {"generate", "error"}
      [] stage = "generate" -> {"generate", "done"}
      [] stage = "done" -> {"exit"}
      [] OTHER -> {}

\* the run has ended without success
FailureExits == {"parse_error", "pattern_error", "invalid", "error", "panic"}

\* the pattern stage is behind
PatternStageOver ==
    pc \in {"validate", "invalid", "build", "error", "generate", "done", "exit"}

\* the characters of the pattern string given on the command line
PatternString == cli.pattern[1]

(***************************************************************************)
(* C21.  In the CLI flow the stages run in the order parse exclusions,     *)
(* parse inclusions, parse pattern, validate_args, build_char_set,         *)
(* generate_passwords, output; a stage that fails ends the run, with no    *)
(* password generated or printed; and generate_passwords is entered only   *)
(* with a non-empty alphabet, an effective length in 1..10,000 and a       *)
(* count of at least 1.                                                    *)
(***************************************************************************)
C21_StagesInOrder ==
    [][/\ pc' \in NextStages(pc)
       /\ pc' \in FailureExits =>
              /\ passwords' = <<>>
              /\ calls' = <<>>
              /\ printed' = <<>>
       /\ pc' # "exit" => printed' = <<>>
       /\ pc' = "generate" =>
              /\ validate_result'.ok
              /\ build_result'.ok
              /\ build_result'.val # <<>>
              /\ params'.length \in 1..MAX_PASSWORD_LENGTH
              /\ params'.count >= 1]_vars

\* a run with exclusions, inclusions and a pattern that printed its batch
C21_Witness ==
    /\ pc = "exit"
    /\ cli.exclude_chars # <<>>
    /\ cli.include_chars # <<>>
    /\ cli.pattern # None
    /\ printed # <<>>
    /\ printed = passwords

\* a run that failed in validation after three successful parsing stages
C21_WitnessFailure ==
    /\ pc = "invalid"
    /\ cli.exclude_chars # <<>>
    /\ cli.include_chars # <<>>
    /\ cli.pattern # None
    /\ locals.pattern.ok
    /\ passwords = <<>>

(***************************************************************************)
(* C22.  In the CLI flow, when a pattern is given the effective length is  *)
(* the pattern's length: validate_args and generate_passwords are handed   *)
(* that length whatever --length is, a pattern of 1..10,000 characters is  *)
(* never rejected for its length, and every password generated and         *)
(* printed has exactly as many characters as the pattern.                  *)
(***************************************************************************)
C22_PatternLengthIsEffectiveLength ==
    (cli.pattern # None /\ PatternStageOver) =>
        LET n == Len(PatternString)
        IN  /\ args.length = n
            /\ params.length = n
            /\ (Validated /\ n \in 1..MAX_PASSWORD_LENGTH) =>
                   \/ validate_result.ok
                   \/ validate_result.err \notin {"InvalidLength", "InvalidLengthTooLong"}
            /\ \A k \in DOMAIN passwords : Len(passwords[k]) = n
            /\ \A k \in DOMAIN printed : Len(printed[k]) = n

\* --length above the ceiling, a pattern of two characters, passwords of two
C22_Witness ==
    /\ pc = "exit"
    /\ cli.pattern = Some(<<76, 110>>)
    /\ cli.length = MAX_PASSWORD_LENGTH + 1
    /\ printed # <<>>
    /\ Len(printed[1]) = 2

\* --length 0 with a pattern
C22_WitnessZero ==
    /\ pc = "exit"
    /\ cli.pattern # None
    /\ cli.length = 0
    /\ printed # <<>>
    /\ Len(printed[1]) >= 1

(***************************************************************************)
(* Vocabulary of the properties of parse_pattern.                          *)
(***************************************************************************)
\* parse_pattern has returned
PatternParsed == locals.pattern # NotCompiled

ToAsciiUpper(c) == IF c \in 97..122 THEN c - 32 ELSE c

\* L, U, N, S in either case
IsPatternLetter(c) == ToAsciiUpper(c) \in {76, 85, 78, 83}

CategoryOfLetter(u) ==
    CASE u = 76 -> "Lowercase"
      [] u = 85 -> "Uppercase"
      [] u = 78 -> "Numeric"
      [] u = 83 -> "Symbol"

\* the positions of a string that hold no pattern letter
BadPositions(s) == {i \in DOMAIN s : ~IsPatternLetter(s[i])}

(***************************************************************************)
(* C23.  parse_pattern maps every character, in either case, to its        *)
(* category (L Lowercase, U Uppercase, N Numeric, S Symbol) and returns a  *)
(* sequence of the length and order of the input; if another character     *)
(* occurs the call fails with an "Invalid pattern character" error naming  *)
(* the first such character, and no pattern is returned.                   *)
(***************************************************************************)
C23_ParsePattern ==
    PatternParsed =>
        LET s == PatternString
            r == locals.pattern
            bad == BadPositions(s)
        IN  IF bad = {}
            THEN /\ r.ok
                 /\ Len(r.val) = Len(s)
                 /\ \A i \in DOMAIN s : r.val[i] = CategoryOfLetter(ToAsciiUpper(s[i]))
                 /\ pc # "pattern_error"
            ELSE /\ ~r.ok
                 /\ r.val = <<>>
                 /\ \E i \in bad :
                        /\ \A j \in bad : i <= j
                        /\ r.err = PatternError(s[i])
                 /\ pc = "pattern_error"

\* "lX1": the error names X, the first of the two characters that are no
\* pattern letter
C23_Witness ==
    /\ cli.pattern = Some(<<108, 88, 49>>)
    /\ pc = "pattern_error"
    /\ locals.pattern.err = PatternError(88)

\* "sNu" is compiled to Symbol, Numeric, Uppercase
C23_WitnessMixedCase ==
    /\ cli.pattern = Some(<<115, 78, 117>>)
    /\ locals.pattern.ok
    /\ locals.pattern.val = <<"Symbol", "Numeric", "Uppercase">>

(***************************************************************************)
(* C24.  As claimed: a request carrying the empty pattern (with a count    *)
(* and a --length that validate_args accepts) passes parse_pattern, is not *)
(* rejected by validate_args for its length, and ends by printing count    *)
(* empty passwords.                                                        *)
(***************************************************************************)
C24_EmptyPatternIsAccepted ==
    (/\ cli.pattern = Some(<<>>)
     /\ cli.password_count >= 1
     /\ cli.length \in 1..MAX_PASSWORD_LENGTH) =>
        /\ pc # "pattern_error"
        /\ Validated => validate_result # Err("InvalidLength")
        /\ pc = "exit" =>
               /\ Len(printed) = cli.password_count
               /\ \A k \in DOMAIN printed : printed[k] = <<>>

(***************************************************************************)
(* C24, amended.  An empty pattern string is valid for parse_pattern,      *)
(* which returns the empty pattern; in the CLI flow the request carrying   *)
(* it has effective length 0 and validate_args rejects it with             *)
(* InvalidLength, whatever --length is, so no password is generated or     *)
(* printed.                                                                *)
(***************************************************************************)
C24_EmptyPatternIsRejectedByValidation ==
    cli.pattern = Some(<<>>) =>
        /\ pc # "pattern_error"
        /\ PatternStageOver =>
               /\ locals.pattern.ok
               /\ locals.pattern.val = <<>>
               /\ args.pattern = Some(<<>>)
               /\ args.length = 0
        /\ Validated =>
               /\ validate_result = Err("InvalidLength")
               /\ pc = "invalid"
        /\ passwords = <<>>
        /\ printed = <<>>

\* an empty pattern, a --length and a count that would pass on their own
C24_Witness ==
    /\ cli.pattern = Some(<<>>)
    /\ cli.length \in 1..MAX_PASSWORD_LENGTH
    /\ cli.password_count >= 1
    /\ pc = "invalid"
    /\ validate_result = Err("InvalidLength")

(***************************************************************************)
(* C25.  When an inclusion list is supplied, every character of every      *)
(* generated password is one of the characters of the inclusion list,      *)
(* whatever their code points.                                             *)
(***************************************************************************)
C25_PasswordsStayInIncludeList ==
    args.include_chars # None =>
        \A k \in DOMAIN passwords :
            \A i \in DOMAIN passwords[k] :
                passwords[k][i] \in CharsOf(args.include_chars[1])

(***************************************************************************)
(* C26.  For every request accepted by validate_args, whatever its         *)
(* minimums and alphabet, a password of minimum-requirements mode has at   *)
(* most 10,000 characters: the characters generate_password_with_minimums  *)
(* is about to push for the request number no more than that.              *)
(***************************************************************************)
C26_GenerationIsBoundedByValidatedLength ==
    (validate_result.ok /\ pc = "generate" /\ params.pattern = None) =>
        pass_vec_len(char_set, params.length, params.min_capitals,
                     params.min_numerals, params.min_symbols)
            <= MAX_PASSWORD_LENGTH

(***************************************************************************)
(* C30.  Every alphabet returned by build_char_set is a sequence of        *)
(* pairwise distinct bytes, whether it is built from the category toggles  *)
(* or from an inclusion list, the inclusion lists parse_exclude_chars      *)
(* makes of the CLI tokens included.                                       *)
(***************************************************************************)
C30_AlphabetBytesAreDistinct ==
    build_result.ok => NoDuplicates(build_result.val)

(***************************************************************************)
(* Vocabulary of the properties of a batch.                                *)
(***************************************************************************)
\* the random source generate_passwords was handed
InitialRng == IF calls = <<>> THEN rng ELSE calls[1].rng

\* the random source as call k of a generation mode left it
RngAfterCall(k) == IF k < Len(calls) THEN calls[k + 1].rng ELSE rng

\* n passwords of pattern mode, each starting where the one before ended:
\* a function of the alphabet, the pattern, n and the random source only
RECURSIVE PatternBatch(_, _, _, _)
PatternBatch(cs, pat, n, r) ==
    IF n = 0
    THEN [pass |-> <<>>, rng |-> r]
    ELSE LET b == PatternBatch(cs, pat, n - 1, r)
             g == generate_password_from_pattern(cs, pat, b.rng)
         IN  [pass |-> Append(b.pass, g.pass), rng |-> g.rng]

\* one password of the mode the parameters select, from random source r
ModeResult(r) ==
    IF params.pattern # None
    THEN generate_password_from_pattern(char_set, params.pattern[1], r)
    ELSE generate_password_with_minimums(char_set, params.length,
             params.min_capitals, params.min_numerals, params.min_symbols, r)

\* n passwords of that mode, each starting where the one before ended
RECURSIVE Batch(_, _)
Batch(n, r) ==
    IF n = 0
    THEN [pass |-> <<>>, rng |-> r]
    ELSE LET b == Batch(n - 1, r)
             g == ModeResult(b.rng)
         IN  [pass |-> Append(b.pass, g.pass), rng |-> g.rng]

\* a minimum that asks for nothing, or for a category the alphabet lacks,
\* replaced by no minimum
Satisfiable(m, cat) ==
    IF m = Some(0) \/ ~HasCategory(char_set, cat) THEN None ELSE m

(***************************************************************************)
(* C27.  When params.pattern is present, the batch generate_passwords      *)
(* returns and the random source it leaves are those of pattern mode       *)
(* alone, a function of the alphabet, the pattern, the count and the       *)
(* initial random source: params.length and the three minimums are not     *)
(* read, and minimum-requirements mode is never entered.                   *)
(***************************************************************************)
C27_PatternModeReadsNoLengthOrMinimum ==
    (PatternModeRun /\ pc = "done") =>
        LET b == PatternBatch(char_set, params.pattern[1], params.count, InitialRng)
        IN  /\ passwords = b.pass
            /\ rng = b.rng
            /\ \A k \in DOMAIN calls : calls[k].mode = "pattern"

\* a pattern of one character with a length of MaxLen and every minimum
\* configured: the passwords have one character
C27_Witness ==
    /\ pc = "done"
    /\ params.pattern # None
    /\ Len(params.pattern[1]) = 1
    /\ AllMinimums(params, Some(MaxMin)) /\ MaxMin >= 1
    /\ params.length = MaxLen /\ MaxLen > 1
    /\ params.count >= 1
    /\ Len(passwords[1]) = 1

(***************************************************************************)
(* C28.  generate_password_with_minimums: a minimum configured for a       *)
(* category the alphabet has no character of, and a minimum of 0, raise    *)
(* no error, add no character and consume no random draw: the password     *)
(* and the random source left behind are those of the same call with that  *)
(* minimum absent.                                                         *)
(***************************************************************************)
C28_UnsatisfiableOrZeroMinimumIsNoMinimum ==
    MinimumsMode =>
        \A k \in DOMAIN calls :
            LET g == generate_password_with_minimums(char_set, params.length,
                         Satisfiable(params.min_capitals, "Uppercase"),
                         Satisfiable(params.min_numerals, "Numeric"),
                         Satisfiable(params.min_symbols, "Symbol"),
                         calls[k].rng)
            IN  /\ ~g.panic
                /\ k \in DOMAIN passwords
                /\ passwords[k] = g.pass
                /\ RngAfterCall(k) = g.rng

\* a minimum of symbols with an alphabet that has none, a minimum of 0
\* numerals, and a password of MaxLen characters
C28_Witness ==
    /\ MinimumsMode
    /\ params.min_symbols = Some(MaxMin) /\ MaxMin >= 1
    /\ ~HasCategory(char_set, "Symbol")
    /\ params.min_numerals = Some(0)
    /\ passwords # <<>>
    /\ Len(passwords[1]) = MaxLen /\ MaxLen >= 1

(***************************************************************************)
(* C29.  Within one batch the random source is threaded: every password    *)
(* starts from the state in which the one before it ended, none from a     *)
(* fresh or repeated state; so the first n passwords of a batch are the    *)
(* batch that a count of n yields from the same alphabet, parameters and   *)
(* initial random source.                                                  *)
(***************************************************************************)
C29_RngIsThreaded ==
    pc \in {"generate", "done"} =>
        /\ \A k \in DOMAIN calls : RngAfterCall(k) = ModeResult(calls[k].rng).rng
        /\ \A n \in 0..Len(passwords) :
               SubSeq(passwords, 1, n) = Batch(n, InitialRng).pass
        /\ pc = "done" =>
               /\ Len(passwords) = params.count
               /\ rng = Batch(params.count, InitialRng).rng

\* a batch of MaxCount whose second password started from another state
\* than the first and differs from it
C29_Witness ==
    /\ pc = "done"
    /\ params.count = MaxCount /\ MaxCount >= 2
    /\ calls[2].rng # calls[1].rng
    /\ passwords[2] # passwords[1]
    /\ passwords[2] = ModeResult(calls[2].rng).pass

=============================================================================
